---- MODULE Spec2Model ----
(***************************************************************************)
(* Model of the S2 cell identifier subsystem of S2shell                    *)
(* (src/src/s2/s2cell_id.rs, src/src/s2/internal.rs).                      *)
(*                                                                         *)
(* A 64-bit identifier is kept at its width: it is a tuple of four 16-bit  *)
(* limbs, limb 1 holding bits 0..15 and limb 4 holding bits 48..63, and    *)
(* the u64 operations of the source (wrapping_neg, +, &, >>, <) are        *)
(* defined on that representation.                                         *)
(***************************************************************************)
EXTENDS Integers, Sequences, FiniteSets, TLC

VARIABLES
    debug_build,    \* build profile: TRUE = overflow checks and debug_assert! on
    a,              \* the identifier the single-threaded caller works on
    b,              \* second identifier of a comparison
    call,           \* the operation the single-threaded caller has applied
    ret,            \* what that operation returned
    once,           \* state of the Once behind lazy_static LOOKUP_TABLES
    init_runs,      \* number of times init_lookup_tables has been entered
    LOOKUP_TABLES,  \* the static: the published pair of tables
    thr             \* per thread: position, identifier, decode and build locals

vars == <<debug_build, a, b, call, ret, once, init_runs, LOOKUP_TABLES, thr>>

----------------------------------------------------------------------------
(* Bounds of the model *)

\* number of bit patterns used for the child-position bits of identifiers
NumPatterns == 3
\* number of threads racing for the lookup tables
NumThreads == 2
\* vector components and (u,v) run over the integers -MaxCoord..MaxCoord,
\* faces over -MaxCoord..NUM_FACES + MaxCoord
MaxCoord == 2
\* s- and t-values include the multiples of one half up to MaxHalves / 2
MaxHalves == 5

----------------------------------------------------------------------------
(* 64-bit unsigned arithmetic on four 16-bit limbs *)

LimbBase == 65536

U64Zero == <<0, 0, 0, 0>>
U64One == <<1, 0, 0, 0>>
U64Max == <<65535, 65535, 65535, 65535>>

RECURSIVE Pow2(_)
Pow2(n) == IF n = 0 THEN 1 ELSE 2 * Pow2(n - 1)

RECURSIVE AndInt(_, _)
AndInt(x, y) ==
    IF x = 0 \/ y = 0 THEN 0
    ELSE (x % 2) * (y % 2) + 2 * AndInt(x \div 2, y \div 2)

RECURSIVE XorInt(_, _)
XorInt(x, y) ==
    IF x = 0 THEN y
    ELSE IF y = 0 THEN x
    ELSE ((x + y) % 2) + 2 * XorInt(x \div 2, y \div 2)

\* bit n (0 = least significant) of a 64-bit value
Bit(x, n) == (x[(n \div 16) + 1] \div Pow2(n % 16)) % 2

And64(x, y) == [k \in 1..4 |-> AndInt(x[k], y[k])]

\* x + y with the carry out of bit 63
Add64(x, y) ==
    LET s1 == x[1] + y[1]
        s2 == x[2] + y[2] + (s1 \div LimbBase)
        s3 == x[3] + y[3] + (s2 \div LimbBase)
        s4 == x[4] + y[4] + (s3 \div LimbBase)
    IN  [sum |-> <<s1 % LimbBase, s2 % LimbBase, s3 % LimbBase, s4 % LimbBase>>,
         carry |-> s4 \div LimbBase]

\* u64::wrapping_neg: 0 - x modulo 2^64
WrappingNeg(x) ==
    Add64([k \in 1..4 |-> (LimbBase - 1) - x[k]], U64One).sum

\* the unsigned order of u64, which derive(PartialOrd) gives S2CellId
Less64(x, y) ==
    \E k \in 1..4 : x[k] < y[k] /\ \A m \in (k + 1)..4 : x[m] = y[m]

\* ((x >> sh) & ((1 << nb) - 1)) as i32, for nb <= 30
RECURSIVE ShrMask(_, _, _)
ShrMask(x, sh, nb) ==
    IF nb = 0 \/ sh > 63 THEN 0
    ELSE Bit(x, sh) + 2 * ShrMask(x, sh + 1, nb - 1)

\* 1_u64 << n
Shl1(n) == [k \in 1..4 |-> IF (n \div 16) + 1 = k THEN Pow2(n % 16) ELSE 0]

----------------------------------------------------------------------------
(* Constants of the source *)

SWAP_MASK == 1
INVERT_MASK == 2
\* the canonical row with its last entry repeating the first
POS_TO_IJ_repeated == << <<0, 1, 3, 0>>, <<0, 2, 3, 1>>, <<3, 2, 0, 1>>, <<3, 1, 0, 2>> >>
POS_TO_IJ == << <<0, 1, 3, 2>>, <<0, 2, 3, 1>>, <<3, 2, 0, 1>>, <<3, 1, 0, 2>> >>
\* the last child without the inversion
POS_TO_ORIENTATION_no_invert == <<SWAP_MASK, 0, 0, SWAP_MASK>>
POS_TO_ORIENTATION == <<SWAP_MASK, 0, 0, INVERT_MASK + SWAP_MASK>>

LOOKUP_BITS == 4
LOOKUP_TABLE_SIZE == Pow2(2 * LOOKUP_BITS + 2)

NUM_FACES == 6
MAX_LEVEL == 30
POS_BITS == 2 * MAX_LEVEL + 1

\* 0x1555555555555555
EvenBitsMask == <<21845, 21845, 21845, 5461>>
\* 0x1111111111111110
OrientationMask == <<4368, 4369, 4369, 4369>>

----------------------------------------------------------------------------
(* Identifier operations, as the source computes them.  An operation that  *)
(* can abort (panic) returns a record with an abort flag.                  *)

\* (self.id >> POS_BITS) as i32
face(id) == ShrMask(id, POS_BITS, 64 - POS_BITS)

\* self.id & (0_u64 >> FACE_BITS)
pos(id) == And64(id, U64Zero)

\* self.id & (self.id.wrapping_neg() + 1): the + is a checked addition in a
\* debug build and a wrapping one in a release build
lsb(id, dbg) ==
    LET s == Add64(WrappingNeg(id), U64One)
    IN  IF dbg /\ s.carry = 1
        THEN [abort |-> TRUE, val |-> U64Zero]
        ELSE [abort |-> FALSE, val |-> And64(id, s.sum)]

lsb_for_level(lvl) == Shl1(2 * (MAX_LEVEL - lvl))

\* debug_assert!(self.id != 0); todo!()
level(id, dbg) == [abort |-> TRUE, val |-> 0]

none == U64Zero

\* S2CellId::new(i64::MAX as u64) instead of S2CellId::new(u64::MAX)
sentinel_signed_max == <<65535, 65535, 65535, 32767>>

sentinel == U64Max

\* todo!()
from_face(f) == [abort |-> TRUE, val |-> U64Zero]

\* todo!()
from_face_pos_level(f, p, lvl) == [abort |-> TRUE, val |-> U64Zero]

\* self.face() < NUM_FACES && (self.lsb() & 0x1555555555555555) != 0
is_valid(id, dbg) ==
    IF ~(face(id) < NUM_FACES)
    THEN [abort |-> FALSE, val |-> FALSE]
    ELSE LET l == lsb(id, dbg)
         IN  IF l.abort THEN [abort |-> TRUE, val |-> FALSE]
             ELSE [abort |-> FALSE, val |-> And64(l.val, EvenBitsMask) # U64Zero]

is_leaf(id) == And64(id, U64One) # U64Zero

----------------------------------------------------------------------------
(* The lookup tables.  A table is a function on 0..LOOKUP_TABLE_SIZE-1;    *)
(* writes_pos and writes_ij count the stores made into each array,          *)
(* count_pos and count_ij the stores made to each index of it.              *)

\* let mut lookup_pos = [0u16; LOOKUP_TABLE_SIZE]; likewise lookup_ij
ZeroTables ==
    [lookup_pos |-> [x \in 0..(LOOKUP_TABLE_SIZE - 1) |-> 0],
     lookup_ij |-> [x \in 0..(LOOKUP_TABLE_SIZE - 1) |-> 0],
     writes_pos |-> 0,
     writes_ij |-> 0,
     count_pos |-> [x \in 0..(LOOKUP_TABLE_SIZE - 1) |-> 0],
     count_ij |-> [x \in 0..(LOOKUP_TABLE_SIZE - 1) |-> 0]]

\* the static before its initializer has stored a value, and the locals of
\* init_lookup_tables outside a call of it: no arrays
NoTables ==
    [lookup_pos |-> <<>>, lookup_ij |-> <<>>, writes_pos |-> 0, writes_ij |-> 0,
     count_pos |-> <<>>, count_ij |-> <<>>]

RECURSIVE init_lookup_cell(_, _, _, _, _, _, _)
init_lookup_cell(lvl, i, j, orig_orientation, p, orientation, tabs) ==
    IF lvl = LOOKUP_BITS
    THEN LET ij == i * Pow2(LOOKUP_BITS) + j
         IN  [lookup_pos |-> [tabs.lookup_pos EXCEPT
                                ![ij * 4 + orig_orientation] = p * 4 + orientation],
              lookup_ij |-> [tabs.lookup_ij EXCEPT
                                ![p * 4 + orig_orientation] = ij * 4 + orientation],
              writes_pos |-> tabs.writes_pos + 1,
              writes_ij |-> tabs.writes_ij + 1,
              count_pos |-> [tabs.count_pos EXCEPT
                                ![ij * 4 + orig_orientation] = @ + 1],
              count_ij |-> [tabs.count_ij EXCEPT
                                ![p * 4 + orig_orientation] = @ + 1]]
    ELSE LET lvl1 == lvl + 1
             i1 == i * 2
             j1 == j * 2
             p1 == p * 4
             r == POS_TO_IJ[orientation + 1]
             \* the c-th recursive call (c = 1..4), made on the arrays t
             child(c, t) ==
                 init_lookup_cell(lvl1, i1 + (r[c] \div 2), j1 + (r[c] % 2),
                     orig_orientation, p1 + (c - 1),
                     XorInt(orientation, POS_TO_ORIENTATION[c]), t)
         \* the four calls in source order, each on the arrays left by the
         \* one before it (a value is bound to t before the next call starts)
         IN  CHOOSE t4 \in
                 {child(4, t3) : t3 \in
                     {child(3, t2) : t2 \in
                         {child(2, t1) : t1 \in {child(1, tabs)}}}} : TRUE

\* the last starting orientation repeating the third
StartOrientations_repeated == <<0, SWAP_MASK, INVERT_MASK, INVERT_MASK>>

\* the starting orientations of the four top-level calls, in source order
StartOrientations ==
    <<0, SWAP_MASK, INVERT_MASK, XorInt(SWAP_MASK, INVERT_MASK)>>

\* the n-th top-level call of init_lookup_tables (n = 1..4)
InitCall(n, tabs) ==
    init_lookup_cell(0, 0, 0, StartOrientations[n], 0, StartOrientations[n], tabs)

init_lookup_tables ==
    InitCall(4, InitCall(3, InitCall(2, InitCall(1, ZeroTables))))

----------------------------------------------------------------------------
(* Decoding *)

\* get_bits without the + 1 that skips the bit below the position pairs
get_bits_no_skip(k, id, acc, lookup_ij) ==
    LET nbits == IF k = 7 THEN MAX_LEVEL - 7 * LOOKUP_BITS ELSE LOOKUP_BITS
        idx == acc.bits + ShrMask(id, k * 2 * LOOKUP_BITS, 2 * nbits) * 4
        e == lookup_ij[idx]
    IN  [bits |-> AndInt(e, SWAP_MASK + INVERT_MASK),
         i |-> acc.i + (e \div Pow2(LOOKUP_BITS + 2)) * Pow2(k * LOOKUP_BITS),
         j |-> acc.j + ((e \div 4) % Pow2(LOOKUP_BITS)) * Pow2(k * LOOKUP_BITS)]

\* the index with a top chunk of three levels, one more than MAX_LEVEL leaves
get_bits_index_wide_top(k, id, bits) ==
    LET nbits == IF k = 7 THEN MAX_LEVEL - 7 * LOOKUP_BITS + 1 ELSE LOOKUP_BITS
    IN  bits + ShrMask(id, k * 2 * LOOKUP_BITS + 1, 2 * nbits) * 4

\* the index get_bits(k) reads lookup_ij at
get_bits_index(k, id, bits) ==
    LET nbits == IF k = 7 THEN MAX_LEVEL - 7 * LOOKUP_BITS ELSE LOOKUP_BITS
    IN  bits + ShrMask(id, k * 2 * LOOKUP_BITS + 1, 2 * nbits) * 4

\* one expansion of get_bits: acc carries bits, i and j
get_bits(k, id, acc, lookup_ij) ==
    LET idx == get_bits_index(k, id, acc.bits)
        e == lookup_ij[idx]
    IN  [bits |-> AndInt(e, SWAP_MASK + INVERT_MASK),
         i |-> acc.i + (e \div Pow2(LOOKUP_BITS + 2)) * Pow2(k * LOOKUP_BITS),
         j |-> acc.j + ((e \div 4) % Pow2(LOOKUP_BITS)) * Pow2(k * LOOKUP_BITS)]

\* let (mut i, mut j) = (0, 0); let mut bits = face & SWAP_MASK
DecodeStart(id) == [bits |-> AndInt(face(id), SWAP_MASK), i |-> 0, j |-> 0]

\* for k in (0..8).rev() { get_bits(k, ...) }, from chunk k downwards
RECURSIVE DecodeLoop(_, _, _, _)
DecodeLoop(k, id, acc, lookup_ij) ==
    IF k < 0 THEN acc
    ELSE DecodeLoop(k - 1, id, get_bits(k, id, acc, lookup_ij), lookup_ij)

\* the tail of to_face_ij_orientation: the orientation fix-up from lsb()
DecodeFinish(id, acc, dbg) ==
    LET l == lsb(id, dbg)
    IN  IF l.abort
        THEN [abort |-> TRUE, face |-> 0, i |-> 0, j |-> 0, orientation |-> 0]
        ELSE [abort |-> FALSE, face |-> face(id), i |-> acc.i, j |-> acc.j,
              orientation |-> IF And64(l.val, OrientationMask) # U64Zero
                              THEN XorInt(acc.bits, SWAP_MASK)
                              ELSE acc.bits]

to_face_ij_orientation(id, dbg, lookup_ij) ==
    DecodeFinish(id, DecodeLoop(7, id, DecodeStart(id), lookup_ij), dbg)

\* ToPrimitive::to_i32 on a u64: None above i32::MAX, and unwrap() panics
to_i32_unwrap(id) ==
    IF id[4] = 0 /\ id[3] = 0 /\ id[2] < LimbBase \div 2
    THEN [abort |-> FALSE, val |-> id[1] + LimbBase * id[2]]
    ELSE [abort |-> TRUE, val |-> 0]

\* 2 * x + delta in i32: checked in a debug build, wrapping in a release build
TwicePlus(x, delta, dbg) ==
    IF x + (delta \div 2) < Pow2(MAX_LEVEL)
    THEN [abort |-> FALSE, val |-> 2 * x + delta]
    ELSE IF dbg THEN [abort |-> TRUE, val |-> 0]
    ELSE [abort |-> FALSE,
          val |-> (2 * (x - Pow2(MAX_LEVEL)) + delta) - Pow2(MAX_LEVEL) - Pow2(MAX_LEVEL)]

get_center_siti(id, dbg, lookup_ij) ==
    LET r == to_face_ij_orientation(id, dbg, lookup_ij)
        aborted == [abort |-> TRUE, face |-> 0, si |-> 0, ti |-> 0]
    IN  IF r.abort THEN aborted
        ELSE LET low == IF is_leaf(id) THEN [abort |-> FALSE, val |-> 0]
                        ELSE to_i32_unwrap(id)
             IN  IF low.abort THEN aborted
                 ELSE LET delta == IF is_leaf(id) THEN 1
                                   ELSE IF AndInt(XorInt(r.i, low.val \div 4), 1) # 0
                                        THEN 2
                                        ELSE 0
                          psi == TwicePlus(r.i, delta, dbg)
                          pti == TwicePlus(r.j, delta, dbg)
                      IN  IF psi.abort \/ pti.abort THEN aborted
                          ELSE [abort |-> FALSE, face |-> r.face,
                                si |-> psi.val, ti |-> pti.val]

----------------------------------------------------------------------------
(* f64 arithmetic.  A finite f64 is kept exactly, as sign, magnitude and    *)
(* binary exponent: the value is (-1)^neg * m * 2^e, m a natural number     *)
(* written as its sequence of bits, least significant first, of at most 53  *)
(* significant bits.  Every operation computes the exact result and rounds  *)
(* it to 53 significant bits, ties to even.  Infinities, NaN, the sign of   *)
(* zero and the limits of the exponent range are not represented.           *)

\* significand width of f64
F64_MANTISSA_DIGITS == 53

\* arithmetic on bit sequences goes ChunkBits bits at a time
ChunkBits == 15
ChunkBase == Pow2(ChunkBits)

\* drop the zero bits at the top of a bit sequence
BNorm(x) ==
    LET top == {n \in 1..Len(x) : x[n] = 1}
    IN  IF top = {} THEN <<>>
        ELSE SubSeq(x, 1, CHOOSE n \in top : \A k \in top : k <= n)

BBit(x, n) == IF n >= 0 /\ n < Len(x) THEN x[n + 1] ELSE 0

RECURSIVE BFromInt(_)
BFromInt(n) == IF n = 0 THEN <<>> ELSE <<n % 2>> \o BFromInt(n \div 2)

\* the value of a bit sequence of at most 31 bits
RECURSIVE BToIntFrom(_, _)
BToIntFrom(x, n) ==
    IF n >= Len(x) THEN 0
    ELSE IF n + 1 = Len(x) THEN x[n + 1]
    ELSE x[n + 1] + 2 * BToIntFrom(x, n + 1)

\* the value of bits n + k .. n + ChunkBits - 1 of x, bit n + k counted as 1
RECURSIVE ChunkFrom(_, _, _)
ChunkFrom(x, n, k) ==
    IF k = ChunkBits THEN 0 ELSE BBit(x, n + k) + 2 * ChunkFrom(x, n, k + 1)

Chunk(x, n) == ChunkFrom(x, n, 0)

\* the ChunkBits bits of v, 0 <= v < ChunkBase
ChunkSeq(v) == [k \in 1..ChunkBits |-> (v \div Pow2(k - 1)) % 2]

RECURSIVE BAddFrom(_, _, _, _)
BAddFrom(x, y, n, c) ==
    IF n >= Len(x) /\ n >= Len(y) THEN ChunkSeq(c)
    ELSE LET t == Chunk(x, n) + Chunk(y, n) + c
         IN  ChunkSeq(t % ChunkBase)
                 \o BAddFrom(x, y, n + ChunkBits, t \div ChunkBase)

BAdd(x, y) == BNorm(BAddFrom(x, y, 0, 0))

\* x - y for x >= y
RECURSIVE BSubFrom(_, _, _, _)
BSubFrom(x, y, n, c) ==
    IF n >= Len(x) THEN <<>>
    ELSE LET t == Chunk(x, n) - Chunk(y, n) - c
         IN  ChunkSeq(t % ChunkBase)
                 \o BSubFrom(x, y, n + ChunkBits, IF t < 0 THEN 1 ELSE 0)

BSub(x, y) == BNorm(BSubFrom(x, y, 0, 0))

BLess(x, y) ==
    \/ Len(x) < Len(y)
    \/ /\ Len(x) = Len(y)
       /\ \E n \in 1..Len(x) :
             x[n] < y[n] /\ \A k \in (n + 1)..Len(x) : x[k] = y[k]

BShl(x, k) ==
    IF x = <<>> THEN <<>>
    ELSE [n \in 1..(Len(x) + k) |-> IF n <= k THEN 0 ELSE x[n - k]]

BShr(x, k) == IF k >= Len(x) THEN <<>> ELSE SubSeq(x, k + 1, Len(x))

\* x * k + c for 0 <= k < ChunkBase
RECURSIVE BMulSmallFrom(_, _, _, _)
BMulSmallFrom(x, k, n, c) ==
    IF n >= Len(x) THEN ChunkSeq(c)
    ELSE LET t == Chunk(x, n) * k + c
         IN  ChunkSeq(t % ChunkBase)
                 \o BMulSmallFrom(x, k, n + ChunkBits, t \div ChunkBase)

RECURSIVE BMulFrom(_, _, _)
BMulFrom(x, y, n) ==
    IF n >= Len(y) THEN <<>>
    ELSE BAdd(BNorm(BMulSmallFrom(x, Chunk(y, n), 0, 0)),
              BShl(BMulFrom(x, y, n + ChunkBits), ChunkBits))

\* the steps of the long division of x by d for bits n down to lo of x (bit 0
\* is x[1]): in each step the bit joins the remainder st.r, and the next
\* quotient bit goes below the ones found so far in st.q
RECURSIVE BDivBits(_, _, _, _, _)
BDivBits(x, d, n, lo, st) ==
    IF n < lo THEN st
    ELSE LET r2 == IF st.r = <<>> THEN (IF x[n + 1] = 1 THEN <<1>> ELSE <<>>)
                   ELSE <<x[n + 1]>> \o st.r
         IN  BDivBits(x, d, n - 1, lo,
                      IF BLess(r2, d) THEN [q |-> <<0>> \o st.q, r |-> r2]
                      ELSE [q |-> <<1>> \o st.q, r |-> BSub(r2, d)])

\* number of steps of a division or square root after which the state is
\* bound as a value
StepRun == 4

\* the steps for bits n down to 0, StepRun at a time
RECURSIVE BDivChunks(_, _, _, _)
BDivChunks(x, d, n, st) ==
    IF n < 0 THEN st
    ELSE LET lo == IF n - StepRun + 1 > 0 THEN n - StepRun + 1 ELSE 0
         IN  CHOOSE r \in {BDivChunks(x, d, lo - 1, s) :
                              s \in {BDivBits(x, d, n, lo, st)}} : TRUE

\* the steps of the square root for the powers of four 2^n, 2^(n-2), ..
\* down to 2^lo: st.x is what is left of the operand and st.res the root
\* found so far, scaled
RECURSIVE BSqrtBits(_, _, _)
BSqrtBits(st, n, lo) ==
    IF n < lo THEN st
    ELSE LET t == BAdd(st.res, BShl(<<1>>, n))
         IN  BSqrtBits(IF BLess(st.x, t)
                       THEN [x |-> st.x, res |-> BShr(st.res, 1)]
                       ELSE [x |-> BSub(st.x, t),
                             res |-> BAdd(BShr(st.res, 1), BShl(<<1>>, n))],
                       n - 2, lo)

RECURSIVE BSqrtChunks(_, _)
BSqrtChunks(st, n) ==
    IF n < 0 THEN st
    ELSE LET lo == IF n - 2 * (StepRun - 1) > 0 THEN n - 2 * (StepRun - 1)
                   ELSE 0
         IN  CHOOSE r \in {BSqrtChunks(s, lo - 2) :
                              s \in {BSqrtBits(st, n, lo)}} : TRUE

\* number of zero bits below the lowest set bit of a nonzero bit sequence
BTrailingZeros(x) ==
    (CHOOSE n \in 1..Len(x) : x[n] = 1 /\ \A k \in 1..(n - 1) : x[k] = 0) - 1

\* the representation with an odd magnitude (zero: magnitude <<>>, exponent 0)
F64Canon(neg, m, e) ==
    LET mm == BNorm(m)
    IN  IF mm = <<>> THEN [neg |-> FALSE, m |-> <<>>, e |-> 0]
        ELSE LET z == BTrailingZeros(mm)
             IN  [neg |-> neg, m |-> BShr(mm, z), e |-> e + z]

\* round an exact value to 53 significant bits, ties to even
F64RoundExact(neg, m, e) ==
    LET mm == BNorm(m)
        drop == Len(mm) - F64_MANTISSA_DIGITS
    IN  IF drop <= 0 THEN F64Canon(neg, mm, e)
        ELSE LET kept == BShr(mm, drop)
                 guard == mm[drop]
                 sticky == \E n \in 1..(drop - 1) : mm[n] = 1
                 up == guard = 1 /\ (sticky \/ kept[1] = 1)
             IN  F64Canon(neg, IF up THEN BAdd(kept, <<1>>) ELSE kept, e + drop)

\* the f64 with value n * 2^e, n an integer below 2^31 in magnitude
F64Of(n, e) == F64Canon(n < 0, BFromInt(IF n < 0 THEN 0 - n ELSE n), e)

F64Neg(x) == IF x.m = <<>> THEN x ELSE [x EXCEPT !.neg = ~x.neg]

F64Mul(x, y) ==
    F64RoundExact(x.neg # y.neg, BMulFrom(x.m, y.m, 0), x.e + y.e)

F64Add(x, y) ==
    LET e == IF x.e < y.e THEN x.e ELSE y.e
        mx == BShl(x.m, x.e - e)
        my == BShl(y.m, y.e - e)
        less == BLess(mx, my)
    IN  F64RoundExact(IF x.neg = y.neg \/ ~less THEN x.neg ELSE y.neg,
                      IF x.neg = y.neg THEN BAdd(mx, my)
                      ELSE IF less THEN BSub(my, mx) ELSE BSub(mx, my),
                      e)

F64Sub(x, y) == F64Add(x, F64Neg(y))

\* x / y, y nonzero: the quotient of the magnitudes is taken to at least two
\* bits more than the significand, with a sticky bit for the remainder
F64Div(x, y) ==
    IF x.m = <<>> THEN x
    ELSE LET k == F64_MANTISSA_DIGITS + 2 + Len(y.m)
             num == BShl(x.m, k)
             qr == BDivChunks(num, y.m, Len(num) - 1, [q |-> <<>>, r |-> <<>>])
             sticky == IF qr.r = <<>> THEN 0 ELSE 1
         IN  F64RoundExact(x.neg # y.neg, <<sticky>> \o BNorm(qr.q),
                           (x.e - y.e) - k - 1)

\* f64::sqrt of a value that is not negative, correctly rounded
F64Sqrt(x) ==
    IF x.m = <<>> THEN x
    ELSE LET t0 == 2 * (F64_MANTISSA_DIGITS + 2) - Len(x.m)
             t == IF (x.e - t0) % 2 = 0 THEN t0 ELSE t0 + 1
             mm == BShl(x.m, t)
             rt == BSqrtChunks([x |-> mm, res |-> <<>>],
                               2 * ((Len(mm) - 1) \div 2))
             sticky == IF rt.x = <<>> THEN 0 ELSE 1
         IN  F64RoundExact(FALSE, <<sticky>> \o rt.res,
                           ((x.e - t) \div 2) - 1)

F64Less(x, y) ==
    LET e == IF x.e < y.e THEN x.e ELSE y.e
        mx == BShl(x.m, x.e - e)
        my == BShl(y.m, y.e - e)
    IN  IF x.neg /\ ~y.neg THEN TRUE
        ELSE IF ~x.neg /\ y.neg THEN FALSE
        ELSE IF x.neg THEN BLess(my, mx)
        ELSE BLess(mx, my)

F64Leq(x, y) == x = y \/ F64Less(x, y)

\* f64::round: to the nearest integer, halfway cases away from zero
F64Round(x) ==
    IF x.e >= 0 THEN x
    ELSE LET d == 0 - x.e
             ip == BShr(x.m, d)
             half == BBit(x.m, d - 1)
         IN  F64Canon(x.neg, IF half = 1 THEN BAdd(ip, <<1>>) ELSE ip, 0)

\* `as i32` of an integer-valued f64: saturating
F64AsI32(x) ==
    IF Len(x.m) + x.e > 31
    THEN (IF x.neg THEN (0 - Pow2(30)) - Pow2(30) ELSE (Pow2(30) - 1) + Pow2(30))
    ELSE LET mag == BToIntFrom(BShl(x.m, x.e), 0)
         IN  IF x.neg THEN 0 - mag ELSE mag

\* `as f64` of a non-negative integer below 2^31
F64FromInt(n) == F64Of(n, 0)

----------------------------------------------------------------------------
(* Coordinate conversions (s2/mod.rs) and Vector3 (util/math/vector.rs).    *)
(* A Vector3<f64> is the tuple <<x, y, z>>; index k of the code is          *)
(* position k + 1 of the tuple.                                             *)

MAX_CELL_LEVEL == 30
LIMIT_IJ == Pow2(MAX_CELL_LEVEL)
\* MAX_SITI = 1 << 31, as the f64 the code converts it to
MAX_SITI_f64 == F64Of(1, MAX_CELL_LEVEL + 1)

\* MAX_SITI as the u32 it is: the sequence of its bits
MAX_SITI == BShl(<<1>>, MAX_CELL_LEVEL + 1)

F64Abs(x) == [x EXCEPT !.neg = FALSE]

abs(p) == <<F64Abs(p[1]), F64Abs(p[2]), F64Abs(p[3])>>

largest_abs_component_no_abs(p) ==
    LET temp == p
    IN  IF F64Less(temp[2], temp[1])
        THEN (IF F64Less(temp[3], temp[1]) THEN 0 ELSE 2)
        ELSE (IF F64Less(temp[3], temp[2]) THEN 1 ELSE 2)

largest_abs_component(p) ==
    LET temp == abs(p)
    IN  IF F64Less(temp[2], temp[1])
        THEN (IF F64Less(temp[3], temp[1]) THEN 0 ELSE 2)
        ELSE (IF F64Less(temp[3], temp[2]) THEN 1 ELSE 2)

\* the axis alone, without the half chosen by the sign
get_face_no_sign(p) == largest_abs_component(p)

get_face(p) ==
    LET face_ == largest_abs_component(p)
    IN  IF F64Less(p[face_ + 1], F64Of(0, 0)) THEN face_ + 3 ELSE face_

face_uv_to_xyz_default(face_, u, v) ==
    LET one == F64Of(1, 0)
        xyz == CASE face_ = 0 -> <<one, u, v>>
                 [] face_ = 1 -> <<F64Neg(u), one, v>>
                 [] face_ = 2 -> <<F64Neg(u), F64Neg(v), one>>
                 [] face_ = 3 -> <<F64Neg(one), F64Neg(v), F64Neg(u)>>
                 [] face_ = 4 -> <<v, F64Neg(one), F64Neg(u)>>
                 [] OTHER -> <<v, u, F64Neg(one)>>
    IN  [abort |-> FALSE, xyz |-> xyz]

face_uv_to_xyz(face_, u, v) ==
    LET one == F64Of(1, 0)
    IN  CASE face_ = 0 -> [abort |-> FALSE, xyz |-> <<one, u, v>>]
          [] face_ = 1 -> [abort |-> FALSE, xyz |-> <<F64Neg(u), one, v>>]
          [] face_ = 2 -> [abort |-> FALSE, xyz |-> <<F64Neg(u), F64Neg(v), one>>]
          [] face_ = 3 -> [abort |-> FALSE,
                           xyz |-> <<F64Neg(one), F64Neg(v), F64Neg(u)>>]
          [] face_ = 4 -> [abort |-> FALSE, xyz |-> <<v, F64Neg(one), F64Neg(u)>>]
          [] face_ = 5 -> [abort |-> FALSE, xyz |-> <<v, u, F64Neg(one)>>]
          [] OTHER -> [abort |-> TRUE, xyz |-> <<>>]

Clamp(x, lo, hi) == IF x < lo THEN lo ELSE IF x > hi THEN hi ELSE x

st_to_ij_no_clamp(s) ==
    F64AsI32(F64Round(F64Sub(F64Mul(F64FromInt(LIMIT_IJ), s), F64Of(1, -1))))

st_to_ij(s) ==
    LET index == F64AsI32(F64Round(F64Sub(F64Mul(F64FromInt(LIMIT_IJ), s),
                                             F64Of(1, -1))))
    IN  Clamp(index, 0, LIMIT_IJ - 1)

\* ToPrimitive::to_u32 of an integer-valued f64: None outside (-1, u32::MAX];
\* the value is the sequence of its bits
F64ToU32(x) ==
    IF (x.neg /\ x.m # <<>>) \/ Len(x.m) + x.e > 32
    THEN [none |-> TRUE, val |-> <<>>]
    ELSE [none |-> FALSE, val |-> BShl(x.m, x.e)]

\* `as u32` in place of to_u32().expect(): the saturating cast
st_to_siti_saturating(s) ==
    LET r == F64Round(F64Mul(s, MAX_SITI_f64))
    IN  IF r.neg THEN [abort |-> FALSE, val |-> <<>>]
        ELSE IF Len(r.m) + r.e > 32
        THEN [abort |-> FALSE, val |-> [n \in 1..32 |-> 1]]
        ELSE [abort |-> FALSE, val |-> BShl(r.m, r.e)]

st_to_siti(s) ==
    LET r == F64ToU32(F64Round(F64Mul(s, MAX_SITI_f64)))
    IN  [abort |-> r.none, val |-> r.val]

\* si is a u32, given as the sequence of its bits
siti_to_st(si, dbg) ==
    IF dbg /\ ~BLess(si, MAX_SITI) THEN [abort |-> TRUE, val |-> F64Of(0, 0)]
    ELSE [abort |-> FALSE,
          val |-> F64Mul(F64Div(F64Of(1, 0), MAX_SITI_f64), F64Canon(FALSE, si, 0))]

ij_to_st_min(i, dbg) ==
    IF dbg /\ ~(0 <= i /\ i <= LIMIT_IJ) THEN [abort |-> TRUE, val |-> F64Of(0, 0)]
    ELSE [abort |-> FALSE,
          val |-> F64Mul(F64Div(F64Of(1, 0), F64FromInt(LIMIT_IJ)), F64FromInt(i))]

\* 1.0 / 3.0
OneThird == F64Div(F64Of(1, 0), F64Of(3, 0))

\* the branch of st_to_uv for s >= 0.5
StToUvUpper(s) ==
    F64Mul(OneThird,
           F64Sub(F64Mul(F64Mul(F64Of(4, 0), s), s), F64Of(1, 0)))

StToUvLower_no_reflect(s) ==
    F64Mul(OneThird,
           F64Sub(F64Of(1, 0), F64Mul(F64Mul(F64Of(4, 0), s), s)))

\* the branch of st_to_uv for s < 0.5
StToUvLower(s) ==
    F64Mul(OneThird,
           F64Sub(F64Of(1, 0),
                  F64Mul(F64Mul(F64Of(4, 0), F64Sub(F64Of(1, 0), s)),
                         F64Sub(F64Of(1, 0), s))))

st_to_uv(s) ==
    IF F64Leq(F64Of(1, -1), s) THEN StToUvUpper(s) ELSE StToUvLower(s)

get_size_ij_at_level(lvl, dbg) ==
    IF dbg /\ ~(lvl > 0) THEN [abort |-> TRUE, val |-> 0]
    ELSE IF dbg /\ ~(lvl < MAX_LEVEL) THEN [abort |-> TRUE, val |-> 0]
    ELSE [abort |-> FALSE, val |-> Pow2(MAX_LEVEL - lvl)]

\* bit n (0..31) of an i32 in two's complement
I32Bit(x, n) ==
    IF n = 31 THEN (IF x < 0 THEN 1 ELSE 0)
    ELSE ((IF x < 0 THEN (x + Pow2(30)) + Pow2(30) ELSE x) \div Pow2(n)) % 2

\* the sum of the bits n..30 of x & y, bit n counted as 1
RECURSIVE I32AndFrom(_, _, _)
I32AndFrom(x, y, n) ==
    IF n = 31 THEN 0
    ELSE I32Bit(x, n) * I32Bit(y, n) + 2 * I32AndFrom(x, y, n + 1)

\* x & y on i32
I32And(x, y) ==
    IF x < 0 /\ y < 0 THEN (I32AndFrom(x, y, 0) - Pow2(30)) - Pow2(30)
    ELSE I32AndFrom(x, y, 0)

\* one pass of the loop of ij_level_to_bound_uv: the interval of dimension d
BoundOfDimension(ij, cell_size, dbg) ==
    LET ij_lo == I32And(ij, 0 - cell_size)
        ij_hi == ij_lo + cell_size
        s_lo == ij_to_st_min(ij_lo, dbg)
        s_hi == ij_to_st_min(ij_hi, dbg)
    IN  IF s_lo.abort \/ s_hi.abort
        THEN [abort |-> TRUE, ij_lo |-> ij_lo, ij_hi |-> ij_hi,
              lo |-> F64Of(0, 0), hi |-> F64Of(0, 0)]
        ELSE [abort |-> FALSE, ij_lo |-> ij_lo, ij_hi |-> ij_hi,
              lo |-> st_to_uv(s_lo.val), hi |-> st_to_uv(s_hi.val)]

\* the result carries, with the bound of each dimension, the corners ij_lo
\* and ij_hi it was computed from
ij_level_to_bound_uv(i, j, lvl, dbg) ==
    LET cell_size == get_size_ij_at_level(lvl, dbg)
    IN  IF cell_size.abort THEN [abort |-> TRUE, bound |-> <<>>]
        ELSE LET d0 == BoundOfDimension(i, cell_size.val, dbg)
                 d1 == BoundOfDimension(j, cell_size.val, dbg)
             IN  [abort |-> d0.abort \/ d1.abort, bound |-> <<d0, d1>>]

\* get_size_ij: the cell's level, then the size at that level
get_size_ij(id, dbg) ==
    LET l == level(id, dbg)
    IN  IF l.abort THEN [abort |-> TRUE, val |-> 0]
        ELSE get_size_ij_at_level(l.val, dbg)

\* Vector3::zero
zero == <<F64Of(0, 0), F64Of(0, 0), F64Of(0, 0)>>

dot_prod(p, other) ==
    F64Add(F64Add(F64Mul(p[1], other[1]), F64Mul(p[2], other[2])),
           F64Mul(p[3], other[3]))

norm2(p) == dot_prod(p, p)

norm(p) == F64Sqrt(norm2(p))

normalize(p) ==
    LET norm_ == norm(p)
        scale == IF norm_.m # <<>> THEN F64Div(F64Of(1, 0), norm_) ELSE norm_
    IN  <<F64Mul(p[1], scale), F64Mul(p[2], scale), F64Mul(p[3], scale)>>

cross_prod(p, other) ==
    <<F64Sub(F64Mul(p[2], other[3]), F64Mul(p[3], other[2])),
      F64Sub(F64Mul(p[3], other[1]), F64Mul(p[1], other[3])),
      F64Sub(F64Mul(p[1], other[2]), F64Mul(p[2], other[1]))>>

\* temp[k as usize] = value: a negative k converts to an index far above 2,
\* and index_mut panics for every index other than 0, 1 and 2
index_mut_assign(temp, k, value) ==
    IF k \in 0..2
    THEN [abort |-> FALSE, val |-> [temp EXCEPT ![k + 1] = value]]
    ELSE [abort |-> TRUE, val |-> temp]

\* Vector3::ortho; k is the index the code derives for the unit axis
ortho(p) ==
    LET k0 == largest_abs_component(p) - 1
        k == IF k0 = 0 THEN 2 ELSE k0 - 1
        temp == index_mut_assign(zero, k, F64Of(1, 0))
    IN  IF temp.abort THEN [abort |-> TRUE, k |-> k, val |-> zero]
        ELSE [abort |-> FALSE, k |-> k,
              val |-> normalize(cross_prod(p, temp.val))]

----------------------------------------------------------------------------
(* Input identifiers of the single-threaded caller *)

\* bit n of child-position pattern p
PatternBit(p, n) ==
    IF p = 0 THEN 0
    ELSE IF p = 1 THEN 1
    ELSE (((n * n) \div (p + 1)) + (n \div p)) % 2

\* bit n of the identifier with face bits f, lowest set bit at position lo
\* and pattern p between them
IdBit(f, p, lo, n) ==
    IF n < lo THEN 0
    ELSE IF n = lo THEN 1
    ELSE IF n >= POS_BITS THEN (f \div Pow2(n - POS_BITS)) % 2
    ELSE PatternBit(p, n)

RECURSIVE LimbOf(_, _, _, _, _)
LimbOf(f, p, lo, base, n) ==
    IF n = 16 THEN 0
    ELSE IdBit(f, p, lo, base + n) * Pow2(n) + LimbOf(f, p, lo, base, n + 1)

MkId(f, p, lo) == [k \in 1..4 |-> LimbOf(f, p, lo, 16 * (k - 1), 0)]

\* 0x1234567890ABCDEF, the identifier of the doc test of to_face_ij_orientation
DocTestId == <<52719, 37035, 22136, 4660>>

Ids ==
    {MkId(f, p, lo) : f \in 0..7, p \in 0..(NumPatterns - 1), lo \in 0..63}
        \cup {U64Zero, U64Max, DocTestId}

\* second operands of comparisons: every level, with and without path bits
PairIds == {MkId(0, p, 2 * n) : p \in 0..1, n \in 0..MAX_LEVEL}

\* (face, i, j, level) inputs of an encoding
EncodeInputs ==
    {<<f, ij[1], ij[2], lvl>> :
        f \in 0..(NUM_FACES - 1),
        ij \in {<<0, 0>>, <<Pow2(MAX_LEVEL) - 1, Pow2(MAX_LEVEL - 1)>>},
        lvl \in {0, MAX_LEVEL}}

\* identifiers the racing threads decode
ThreadIds == {U64One, DocTestId, U64Max}

Threads == 1..NumThreads

----------------------------------------------------------------------------
(* State *)

RetNone ==
    [abort |-> FALSE, bool |-> FALSE, bool2 |-> FALSE, u64 |-> U64Zero,
     face |-> 0, i |-> 0, j |-> 0, orientation |-> 0, args |-> <<>>,
     out |-> <<>>]

ThreadIdle ==
    [pc |-> "idle", id |-> U64Zero, k |-> 0,
     acc |-> [bits |-> 0, i |-> 0, j |-> 0],
     step |-> 0, tabs |-> NoTables, out |-> RetNone]

\* a call_once that does not exclude a second initializer while one runs
CallOnceMayRun_unguarded(state) == state # "complete"

\* lazy_static Once::call_once: the caller may run the initializer
CallOnceMayRun(state) == state = "incomplete"

\* a call_once that does not wait for the running initializer
CallOnceMayReturn_nowait(state) == state # "incomplete"

\* lazy_static Once::call_once: the caller may return and use the value
CallOnceMayReturn(state) == state = "complete"

----------------------------------------------------------------------------
(* Single-threaded caller: one operation applied to the input identifier *)

InitPure ==
    /\ debug_build \in BOOLEAN
    /\ a \in Ids
    /\ b = U64Zero
    /\ call = "start"
    /\ ret = RetNone
    /\ once = "incomplete"
    /\ init_runs = 0
    /\ LOOKUP_TABLES = NoTables
    /\ thr = [t \in Threads |-> ThreadIdle]

\* a cache that is dropped by every operation
TablesUnchanged_dropped ==
    /\ once' = "incomplete"
    /\ init_runs' = init_runs
    /\ LOOKUP_TABLES' = NoTables

TablesUnchanged == UNCHANGED <<once, init_runs, LOOKUP_TABLES>>

\* Deref of LOOKUP_IJ by a single caller: build on first use only
LazyDeref ==
    IF CallOnceMayRun(once)
    THEN /\ once' = "complete"
         /\ init_runs' = init_runs + 1
         /\ LOOKUP_TABLES' = init_lookup_tables
    ELSE TablesUnchanged

Do_is_valid ==
    /\ call = "start"
    /\ call' = "is_valid"
    /\ LET r == is_valid(a, debug_build)
       IN  ret' = [RetNone EXCEPT !.abort = r.abort, !.bool = r.val]
    /\ TablesUnchanged
    /\ UNCHANGED <<debug_build, a, b, thr>>

Do_lsb ==
    /\ call = "start"
    /\ call' = "lsb"
    /\ LET r == lsb(a, debug_build)
       IN  ret' = [RetNone EXCEPT !.abort = r.abort, !.u64 = r.val]
    /\ TablesUnchanged
    /\ UNCHANGED <<debug_build, a, b, thr>>

Do_level ==
    /\ call = "start"
    /\ call' = "level"
    /\ LET r == level(a, debug_build)
       IN  ret' = [RetNone EXCEPT !.abort = r.abort, !.i = r.val]
    /\ TablesUnchanged
    /\ UNCHANGED <<debug_build, a, b, thr>>

\* a caller evaluating a.lsb() <= b.lsb() and a.level() >= b.level()
Do_compare(bb) ==
    /\ call = "start"
    /\ call' = "compare"
    /\ b' = bb
    /\ LET la == lsb(a, debug_build)
           lb == lsb(bb, debug_build)
           va == level(a, debug_build)
           vb == level(bb, debug_build)
       IN  ret' = [RetNone EXCEPT
                     !.abort = la.abort \/ lb.abort \/ va.abort \/ vb.abort,
                     !.bool = (la.val = lb.val \/ Less64(la.val, lb.val)),
                     !.bool2 = (va.val >= vb.val)]
    /\ TablesUnchanged
    /\ UNCHANGED <<debug_build, a, thr>>

\* S2CellId::none().is_valid()
Do_none ==
    /\ call = "start"
    /\ call' = "none"
    /\ LET r == is_valid(none, debug_build)
       IN  ret' = [RetNone EXCEPT !.abort = r.abort, !.bool = r.val, !.u64 = none]
    /\ TablesUnchanged
    /\ UNCHANGED <<debug_build, a, b, thr>>

\* S2CellId::sentinel().is_valid() and a < S2CellId::sentinel()
Do_sentinel ==
    /\ call = "start"
    /\ call' = "sentinel"
    /\ LET r == is_valid(sentinel, debug_build)
       IN  ret' = [RetNone EXCEPT !.abort = r.abort, !.bool = r.val,
                                  !.bool2 = Less64(a, sentinel), !.u64 = sentinel]
    /\ TablesUnchanged
    /\ UNCHANGED <<debug_build, a, b, thr>>

Do_to_face_ij_orientation ==
    /\ call \in {"start", "to_face_ij_orientation"}
    /\ call' = "to_face_ij_orientation"
    /\ LazyDeref
    /\ LET r == to_face_ij_orientation(a, debug_build, LOOKUP_TABLES'.lookup_ij)
       IN  ret' = [RetNone EXCEPT !.abort = r.abort, !.face = r.face, !.i = r.i,
                                  !.j = r.j, !.orientation = r.orientation]
    /\ UNCHANGED <<debug_build, a, b, thr>>

\* encode (face, i, j, level) with the constructor of the source, then decode
Do_encode_decode(in) ==
    /\ call = "start"
    /\ call' = "encode_decode"
    /\ LET e == from_face_pos_level(in[1], U64Zero, in[4])
       IN  IF e.abort
           THEN /\ ret' = [RetNone EXCEPT !.abort = TRUE, !.args = in]
                /\ TablesUnchanged
           ELSE /\ LazyDeref
                /\ LET r == to_face_ij_orientation(e.val, debug_build,
                                                   LOOKUP_TABLES'.lookup_ij)
                   IN  ret' = [RetNone EXCEPT !.abort = r.abort, !.face = r.face,
                                 !.i = r.i, !.j = r.j, !.u64 = e.val,
                                 !.orientation = r.orientation, !.args = in]
    /\ UNCHANGED <<debug_build, a, b, thr>>

\* decode a, then re-encode with the constructor of the source
Do_decode_encode ==
    /\ call = "start"
    /\ call' = "decode_encode"
    /\ LazyDeref
    /\ LET r == to_face_ij_orientation(a, debug_build, LOOKUP_TABLES'.lookup_ij)
           lv == level(a, debug_build)
           e == from_face_pos_level(r.face, pos(a), lv.val)
       IN  ret' = [RetNone EXCEPT !.abort = r.abort \/ lv.abort \/ e.abort,
                                  !.face = r.face,
                                  !.i = r.i, !.j = r.j, !.u64 = e.val]
    /\ UNCHANGED <<debug_build, a, b, thr>>

Do_get_center_siti ==
    /\ call = "start"
    /\ call' = "get_center_siti"
    /\ LazyDeref
    /\ LET r == get_center_siti(a, debug_build, LOOKUP_TABLES'.lookup_ij)
       IN  ret' = [RetNone EXCEPT !.abort = r.abort, !.face = r.face,
                                  !.i = r.si, !.j = r.ti]
    /\ UNCHANGED <<debug_build, a, b, thr>>

\* a caller taking a.face() and a.pos()
Do_face_pos ==
    /\ call = "start"
    /\ call' = "face_pos"
    /\ ret' = [RetNone EXCEPT !.face = face(a), !.u64 = pos(a)]
    /\ TablesUnchanged
    /\ UNCHANGED <<debug_build, a, b, thr>>

NextPure ==
    \/ Do_is_valid
    \/ Do_lsb
    \/ Do_level
    \/ \E bb \in PairIds : Do_compare(bb)
    \/ Do_none
    \/ Do_sentinel
    \/ Do_to_face_ij_orientation
    \/ \E in \in EncodeInputs : Do_encode_decode(in)
    \/ Do_decode_encode
    \/ Do_get_center_siti
    \/ Do_face_pos

SpecPure == InitPure /\ [][NextPure]_vars

----------------------------------------------------------------------------
(* Threads calling to_face_ij_orientation concurrently.  Every iteration   *)
(* of the decoding loop dereferences LOOKUP_IJ, which goes through         *)
(* call_once on the Once of LOOKUP_TABLES.                                 *)

Init ==
    /\ debug_build \in BOOLEAN
    /\ a = U64Zero
    /\ b = U64Zero
    /\ call = "threads"
    /\ ret = RetNone
    /\ once = "incomplete"
    /\ init_runs = 0
    /\ LOOKUP_TABLES = NoTables
    /\ thr = [t \in Threads |-> ThreadIdle]

CallerUnchanged == UNCHANGED <<debug_build, a, b, call, ret>>

\* entry of to_face_ij_orientation, up to the loop
Call(t, id) ==
    /\ thr[t].pc = "idle"
    /\ thr' = [thr EXCEPT ![t] = [ThreadIdle EXCEPT
                  !.pc = "get_bits", !.id = id, !.k = 7, !.acc = DecodeStart(id)]]
    /\ TablesUnchanged
    /\ CallerUnchanged

\* is_valid, lsb and face on one identifier: no table is used
CallSimple(t, id) ==
    /\ thr[t].pc = "idle"
    /\ LET l == lsb(id, debug_build)
           v == is_valid(id, debug_build)
       IN  thr' = [thr EXCEPT ![t] = [ThreadIdle EXCEPT
                      !.pc = IF l.abort \/ v.abort THEN "simple_panicked"
                             ELSE "simple_done",
                      !.id = id,
                      !.out = [RetNone EXCEPT !.abort = l.abort \/ v.abort,
                                 !.bool = v.val, !.u64 = l.val,
                                 !.face = face(id)]]]
    /\ TablesUnchanged
    /\ CallerUnchanged

\* the thread finds the Once incomplete and becomes the one that runs
\* init_lookup_tables: the two arrays are allocated zeroed
BeginInit(t) ==
    /\ thr[t].pc = "get_bits"
    /\ CallOnceMayRun(once)
    /\ once' = "running"
    /\ init_runs' = init_runs + 1
    /\ thr' = [thr EXCEPT ![t].pc = "init", ![t].step = 0, ![t].tabs = ZeroTables]
    /\ UNCHANGED LOOKUP_TABLES
    /\ CallerUnchanged

\* one of the four top-level init_lookup_cell calls
InitStep(t) ==
    /\ thr[t].pc = "init"
    /\ thr[t].step < 4
    /\ thr' = [thr EXCEPT ![t].step = thr[t].step + 1,
                          ![t].tabs = InitCall(thr[t].step + 1, thr[t].tabs)]
    /\ TablesUnchanged
    /\ CallerUnchanged

\* init_lookup_tables returns: the value is stored in the static and the
\* Once becomes complete
InitDone(t) ==
    /\ thr[t].pc = "init"
    /\ thr[t].step = 4
    /\ LOOKUP_TABLES' = thr[t].tabs
    /\ once' = "complete"
    /\ thr' = [thr EXCEPT ![t].pc = "get_bits", ![t].step = 0, ![t].tabs = NoTables]
    /\ UNCHANGED init_runs
    /\ CallerUnchanged

\* call_once returns and get_bits(k) reads lookup_ij; a read of the static
\* before a value was stored in it is undefined behaviour ("ub")
GetBits(t) ==
    /\ thr[t].pc = "get_bits"
    /\ CallOnceMayReturn(once)
    /\ IF LOOKUP_TABLES = NoTables
       THEN thr' = [thr EXCEPT ![t].pc = "ub"]
       ELSE thr' = [thr EXCEPT
                ![t].acc = get_bits(thr[t].k, thr[t].id, thr[t].acc,
                                    LOOKUP_TABLES.lookup_ij),
                ![t].k = thr[t].k - 1,
                ![t].pc = IF thr[t].k = 0 THEN "finish" ELSE "get_bits"]
    /\ TablesUnchanged
    /\ CallerUnchanged

\* the orientation fix-up and the return, or the panic of lsb()
Finish(t) ==
    /\ thr[t].pc = "finish"
    /\ LET r == DecodeFinish(thr[t].id, thr[t].acc, debug_build)
       IN  thr' = [thr EXCEPT
                ![t].pc = IF r.abort THEN "panicked" ELSE "done",
                ![t].out = [RetNone EXCEPT !.abort = r.abort, !.face = r.face,
                              !.i = r.i, !.j = r.j, !.orientation = r.orientation]]
    /\ TablesUnchanged
    /\ CallerUnchanged

\* the caller takes the result; the thread is free for another call
Return(t) ==
    /\ thr[t].pc \in {"done", "simple_done"}
    /\ thr' = [thr EXCEPT ![t] = ThreadIdle]
    /\ TablesUnchanged
    /\ CallerUnchanged

Next ==
    \/ \E t \in Threads, id \in ThreadIds : Call(t, id)
    \/ \E t \in Threads, id \in ThreadIds : CallSimple(t, id)
    \/ \E t \in Threads : BeginInit(t)
    \/ \E t \in Threads : InitStep(t)
    \/ \E t \in Threads : InitDone(t)
    \/ \E t \in Threads : GetBits(t)
    \/ \E t \in Threads : Finish(t)
    \/ \E t \in Threads : Return(t)

Spec == Init /\ [][Next]_vars

----------------------------------------------------------------------------
(* Specification of the coordinate conversions: a single caller applies one *)
(* function to inputs drawn from the sets below.                            *)

Coords == {F64Of(n, 0) : n \in (0 - MaxCoord)..MaxCoord}

Points == Coords \X Coords \X Coords

FaceInputs == (0 - MaxCoord)..(NUM_FACES + MaxCoord)

\* s- and t-values: multiples of one half, quarters, values within a few
\* leaf cells of 0, 1/2, 1 and 2, values of full 53-bit precision, and
\* values far outside [0, 1]
F64Samples ==
    {F64Of(n, -1) : n \in (0 - MaxHalves)..MaxHalves}
    \cup {F64Of(1, -2), F64Of(3, -2)}
    \cup {F64Of(1, -31), F64Of(-1, -31), F64Of(3, -31), F64Of(3, -32),
          F64Of(1, -32), F64Of(-1, -32), F64Of(-1, -33)}
    \cup {F64Sub(F64Of(1, 0), F64Of(1, -31)),
          F64Sub(F64Of(1, 0), F64Of(1, -53)),
          F64Add(F64Of(1, -1), F64Of(1, -31)),
          F64Sub(F64Of(1, -1), F64Of(1, -31)),
          F64Sub(F64Of(2, 0), F64Of(1, -31)),
          F64Sub(F64Of(2, 0), F64Of(1, -32)),
          F64Add(F64Of(1, 22), F64Of(1, -30)),
          F64Of(1, 40), F64Of(-1, 40)}

Levels == 0..MAX_LEVEL

\* si-values: 0, 1, 2^30, 2^31 - 1, 2^31 (= MAX_SITI), 2^31 + 1, 2^32 - 1
SitiSamples ==
    {<<>>, <<1>>, BShl(<<1>>, 30), [n \in 1..31 |-> 1], MAX_SITI,
     BAdd(MAX_SITI, <<1>>), [n \in 1..32 |-> 1]}

\* (i, j) of leaf cells: the corners and the middle of a face, and a leaf
\* with alternating bits
IjSamples ==
    {<<0, 0>>, <<1, Pow2(MAX_LEVEL) - 1>>, <<Pow2(MAX_LEVEL) - 1, 0>>,
     <<Pow2(MAX_LEVEL - 1), Pow2(MAX_LEVEL - 1) - 1>>,
     <<715827882, 357913941>>}

\* u- and v-values: multiples of one half, and the f64 next to 1 on each side
\* of zero
UvSamples ==
    {F64Of(n, -1) : n \in (0 - MaxHalves)..MaxHalves}
    \cup {F64Sub(F64Of(1, 0), F64Of(1, -53)), F64Sub(F64Of(1, -53), F64Of(1, 0))}

\* vectors for ortho: each of x, y and z largest in absolute value, with
\* either sign and with ties, the vector of the documentation example, and
\* the zero vector
OrthoInputs ==
    {<<F64Of(x, 0), F64Of(y, 0), F64Of(z, 0)>> :
        <<x, y, z>> \in {<<3, -4, 3>>, <<1, 0, 0>>, <<0, 1, 0>>, <<0, 0, 1>>,
                         <<-2, 1, 1>>, <<1, 2, -2>>, <<1, 1, 1>>, <<2, 2, 1>>,
                         <<1, -3, 2>>, <<2, 1, -5>>, <<-7, 3, 5>>, <<0, 0, 0>>}}

InitCoord ==
    /\ debug_build \in BOOLEAN
    /\ a = U64Zero
    /\ b = U64Zero
    /\ call = "start"
    /\ ret = RetNone
    /\ once = "incomplete"
    /\ init_runs = 0
    /\ LOOKUP_TABLES = NoTables
    /\ thr = [t \in Threads |-> ThreadIdle]

CoordUnchanged ==
    UNCHANGED <<debug_build, a, b, once, init_runs, LOOKUP_TABLES, thr>>

Do_get_face(p) ==
    /\ call = "start"
    /\ call' = "get_face"
    /\ ret' = [RetNone EXCEPT !.face = get_face(p), !.args = <<p>>]
    /\ CoordUnchanged

Do_face_uv_to_xyz(face_, u, v) ==
    /\ call = "start"
    /\ call' = "face_uv_to_xyz"
    /\ \E r \in {face_uv_to_xyz(face_, u, v)} :
          ret' = [RetNone EXCEPT !.abort = r.abort, !.out = r.xyz,
                                  !.args = <<face_, u, v>>]
    /\ CoordUnchanged

\* two calls, so that the results for two inputs can be compared
Do_st_to_ij(s, t) ==
    /\ call = "start"
    /\ call' = "st_to_ij"
    /\ ret' = [RetNone EXCEPT !.i = st_to_ij(s), !.j = st_to_ij(t),
                              !.args = <<s, t>>]
    /\ CoordUnchanged

Do_st_to_uv(s) ==
    /\ call = "start"
    /\ call' = "st_to_uv"
    /\ ret' = [RetNone EXCEPT !.out = st_to_uv(s), !.args = <<s>>]
    /\ CoordUnchanged

Do_st_to_siti(s) ==
    /\ call = "start"
    /\ call' = "st_to_siti"
    /\ \E r \in {st_to_siti(s)} :
          ret' = [RetNone EXCEPT !.abort = r.abort, !.out = r.val,
                                  !.args = <<s>>]
    /\ CoordUnchanged

Do_get_size_ij_at_level(lvl) ==
    /\ call = "start"
    /\ call' = "get_size_ij_at_level"
    /\ \E r \in {get_size_ij_at_level(lvl, debug_build)} :
          ret' = [RetNone EXCEPT !.abort = r.abort, !.i = r.val,
                                  !.args = <<lvl>>]
    /\ CoordUnchanged

Do_siti_to_st(si) ==
    /\ call = "start"
    /\ call' = "siti_to_st"
    /\ \E r \in {siti_to_st(si, debug_build)} :
          ret' = [RetNone EXCEPT !.abort = r.abort, !.out = r.val,
                                  !.args = <<si>>]
    /\ CoordUnchanged

Do_ij_level_to_bound_uv(ij, lvl) ==
    /\ call = "start"
    /\ call' = "ij_level_to_bound_uv"
    /\ \E r \in {ij_level_to_bound_uv(ij[1], ij[2], lvl, debug_build)} :
          ret' = [RetNone EXCEPT !.abort = r.abort, !.out = r.bound,
                                  !.args = <<ij[1], ij[2], lvl>>]
    /\ CoordUnchanged

Do_ortho(p) ==
    /\ call = "start"
    /\ call' = "ortho"
    /\ \E r \in {ortho(p)} :
          ret' = [RetNone EXCEPT !.abort = r.abort, !.i = r.k, !.out = r.val,
                                  !.args = <<p>>]
    /\ CoordUnchanged

\* get_face(&face_uv_to_xyz(face, u, v))
Do_get_face_of_xyz(face_, u, v) ==
    /\ call = "start"
    /\ call' = "get_face_of_xyz"
    /\ \E p \in {face_uv_to_xyz(face_, u, v)} :
          ret' = [RetNone EXCEPT !.abort = p.abort,
                                  !.face = IF p.abort THEN 0 ELSE get_face(p.xyz),
                                  !.args = <<face_, u, v>>]
    /\ CoordUnchanged

\* first use of the lazy static: init_lookup_tables builds both tables
Do_init_lookup_tables ==
    /\ call = "start"
    /\ call' = "init_lookup_tables"
    /\ LazyDeref
    /\ UNCHANGED <<debug_build, a, b, ret, thr>>

NextCoord ==
    \/ \E p \in Points : Do_get_face(p)
    \/ \E face_ \in FaceInputs : \E u \in Coords : \E v \in Coords :
          Do_face_uv_to_xyz(face_, u, v)
    \/ \E s \in F64Samples : \E t \in F64Samples : Do_st_to_ij(s, t)
    \/ \E s \in F64Samples : Do_st_to_uv(s)
    \/ \E s \in F64Samples : Do_st_to_siti(s)
    \/ \E lvl \in Levels : Do_get_size_ij_at_level(lvl)
    \/ \E si \in SitiSamples : Do_siti_to_st(si)
    \/ Do_init_lookup_tables
    \/ \E face_ \in FaceInputs : \E u \in UvSamples : \E v \in UvSamples :
          Do_get_face_of_xyz(face_, u, v)
    \/ \E ij \in IjSamples : \E lvl \in Levels : Do_ij_level_to_bound_uv(ij, lvl)
    \/ \E p \in OrthoInputs : Do_ortho(p)

SpecCoord == InitCoord /\ [][NextCoord]_vars

----------------------------------------------------------------------------
(* Reference notions the properties are stated with *)

\* position of the lowest set bit of a nonzero 64-bit value
LowestSetBitPos(x) ==
    CHOOSE n \in 0..63 : Bit(x, n) = 1 /\ \A m \in 0..(n - 1) : Bit(x, m) = 0

\* the top three bits
TopBits(x) == x[4] \div 8192

\* a valid identifier: face in [0,6) and sentinel bit at a level position,
\* the bit position 2 * (30 - k) of a level-k identifier
ValidId(x) ==
    /\ x # U64Zero
    /\ TopBits(x) < 6
    /\ LowestSetBitPos(x) \in {2 * (MAX_LEVEL - k) : k \in 0..MAX_LEVEL}

\* the level of a valid identifier
LevelOf(x) == MAX_LEVEL - (LowestSetBitPos(x) \div 2)

\* the (face, i, j) a built table decodes an identifier to
DecodeOf(x) == to_face_ij_orientation(x, FALSE, init_lookup_tables.lookup_ij)

\* the level-by-level walk of the curve: levels l..k of identifier x, entered
\* in orientation o with the bits i and j of the levels above
RECURSIVE WalkFrom(_, _, _, _, _, _)
WalkFrom(x, l, k, o, i, j) ==
    IF l > k THEN [i |-> i, j |-> j, orientation |-> o]
    ELSE LET p == ShrMask(x, 2 * (MAX_LEVEL - l) + 1, 2)
             ij == POS_TO_IJ[o + 1][p + 1]
         IN  WalkFrom(x, l + 1, k, XorInt(o, POS_TO_ORIENTATION[p + 1]),
                      2 * i + (ij \div 2), 2 * j + (ij % 2))

----------------------------------------------------------------------------
(* Properties *)

\* C1: is_valid(id) is true exactly for the 64-bit values whose top 3 bits
\* are less than 6 and whose lowest set bit lies at an even position
\* 2*(30-k), k in [0,30], leaf identifiers included; false for all others.
C1_IsValidExact ==
    call = "is_valid" => (~ret.abort /\ ret.bool = ValidId(a))

\* C2: for every nonzero id, lsb() completes and returns id & (-id), the
\* single lowest set bit, which for a valid id at level k is lsb_for_level(k).
C2_LsbLowestSetBit ==
    (call = "lsb" /\ a # U64Zero) =>
        /\ ~ret.abort
        /\ ret.u64 = And64(a, WrappingNeg(a))
        /\ ret.u64 = Shl1(LowestSetBitPos(a))
        /\ ValidId(a) => ret.u64 = lsb_for_level(LevelOf(a))

\* C3: for every valid identifier a at level k, level(a) returns k and
\* is_valid(a) is true.
C3_LevelAndValid ==
    ValidId(a) =>
        /\ call = "level" => (~ret.abort /\ ret.i = LevelOf(a))
        /\ call = "is_valid" => (~ret.abort /\ ret.bool)

\* C4: for all valid identifiers a and b, lsb(a) <= lsb(b) if and only if
\* level(a) >= level(b).
C4_LsbOrder ==
    (call = "compare" /\ ValidId(a) /\ ValidId(b)) =>
        (~ret.abort /\ (ret.bool <=> ret.bool2))

\* C5: none() is the value 0 and is not valid; sentinel() is all ones, is
\* not valid, and is strictly greater than every valid identifier.
C5_NoneSentinel ==
    /\ call = "none" => (~ret.abort /\ ret.u64 = U64Zero /\ ~ret.bool)
    /\ call = "sentinel" =>
          /\ ~ret.abort
          /\ ret.u64 = U64Max
          /\ ~ret.bool
          /\ ValidId(a) => ret.bool2

\* the largest valid identifier (face 5, leaf, all position bits set) has
\* been compared with the sentinel
C5_Witness ==
    /\ call = "sentinel"
    /\ a = MkId(5, 1, 0)
    /\ ValidId(a)
    /\ ret.bool2

\* C6: encoding (face, i, j, level) and decoding the identifier returns the
\* face and an (i, j) whose top `level` bits are those of the original.
C6_RoundTrip ==
    call = "encode_decode" =>
        LET cell == Pow2(MAX_LEVEL - ret.args[4])
        IN  /\ ~ret.abort
            /\ ret.face = ret.args[1]
            /\ ret.i \div cell = ret.args[2] \div cell
            /\ ret.j \div cell = ret.args[3] \div cell

\* C7: decoding a valid identifier and re-encoding it at the same level
\* returns the original 64-bit value.
C7_Idempotent ==
    (call = "decode_encode" /\ ValidId(a)) => (~ret.abort /\ ret.u64 = a)

\* C8: however many threads race for the first use, init_lookup_tables is
\* entered at most once, and once the Once is complete it has run exactly
\* once and every user reads the one value it produced.
C8_InitOnce ==
    /\ init_runs <= 1
    /\ once = "complete" =>
          (init_runs = 1 /\ LOOKUP_TABLES = init_lookup_tables)
    /\ \A t \in Threads :
          (\/ thr[t].pc \in {"finish", "done", "panicked"}
           \/ (thr[t].pc = "get_bits" /\ thr[t].k < 7)) =>
              (init_runs = 1 /\ once = "complete")

\* one thread is inside init_lookup_tables while another one, also at its
\* first table use, is held in call_once
C8_Witness ==
    /\ init_runs = 1
    /\ \E t1, t2 \in Threads :
          /\ t1 # t2
          /\ thr[t1].pc = "init"
          /\ thr[t2].pc = "get_bits"
          /\ thr[t2].k = 7

\* C9: every table read of a decoding thread happens after all 1024 stores
\* to each table: no step of get_bits reads an unbuilt or partly built table.
C9_NoPartialRead ==
    [][\A t \in Threads :
          (thr[t].pc = "get_bits" /\ thr'[t] # thr[t] /\ thr'[t].pc # "init") =>
              /\ LOOKUP_TABLES.writes_pos = LOOKUP_TABLE_SIZE
              /\ LOOKUP_TABLES.writes_ij = LOOKUP_TABLE_SIZE
              /\ thr'[t].pc # "ub"]_vars

\* a thread that was held in call_once during the construction has read the
\* table, and so has the thread that built it
C9_Witness ==
    \E t1, t2 \in Threads :
        /\ t1 # t2
        /\ thr[t1].pc = "get_bits" /\ thr[t1].k < 7
        /\ thr[t2].pc = "get_bits" /\ thr[t2].k < 7
        /\ init_runs = 1

\* C10: for every valid identifier, leaf identifiers such as 1 included,
\* to_face_ij_orientation completes and returns face in [0,6), i and j in
\* [0,2^30) and orientation in [0,4).
C10_DecodeTotal ==
    (call = "to_face_ij_orientation" /\ ValidId(a)) =>
        /\ ~ret.abort
        /\ ret.face \in 0..(NUM_FACES - 1)
        /\ ret.i \in 0..(Pow2(MAX_LEVEL) - 1)
        /\ ret.j \in 0..(Pow2(MAX_LEVEL) - 1)
        /\ ret.orientation \in 0..3

\* C11: for every face f in [0,6) the level-0 identifier of the face decodes
\* to face f and (i, j) = (2^29, 2^29), the grid center.
C11_FaceCellCenter ==
    \A f \in 0..(NUM_FACES - 1) :
        (call = "to_face_ij_orientation" /\ a = MkId(f, 0, 2 * MAX_LEVEL)) =>
            /\ ~ret.abort
            /\ ret.face = f
            /\ ret.i = Pow2(MAX_LEVEL - 1)
            /\ ret.j = Pow2(MAX_LEVEL - 1)

\* the level-0 identifier of face 5 has been decoded
C11_Witness ==
    /\ call = "to_face_ij_orientation"
    /\ a = <<0, 0, 0, 45056>>
    /\ ret.face = 5
    /\ ret.i = 536870912

\* C12: for every valid leaf identifier get_center_siti returns
\* (face, 2i+1, 2j+1), (face, i, j) being the decode of the identifier.
C12_LeafCenter ==
    (call = "get_center_siti" /\ ValidId(a) /\ LevelOf(a) = MAX_LEVEL) =>
        /\ ~ret.abort
        /\ ret.face = DecodeOf(a).face
        /\ ret.i = 2 * DecodeOf(a).i + 1
        /\ ret.j = 2 * DecodeOf(a).j + 1

\* C13: for every valid non-leaf identifier get_center_siti completes and
\* returns (face, 2*imin + s, 2*jmin + s), s = 2^(30-level) the cell size and
\* (imin, jmin) the lower corner of the cell.
C13_CellCenter ==
    (call = "get_center_siti" /\ ValidId(a) /\ LevelOf(a) < MAX_LEVEL) =>
        LET size == Pow2(MAX_LEVEL - LevelOf(a))
            imin == (DecodeOf(a).i \div size) * size
            jmin == (DecodeOf(a).j \div size) * size
        IN  /\ ~ret.abort
            /\ ret.face = DecodeOf(a).face
            /\ ret.i = 2 * imin + size
            /\ ret.j = 2 * jmin + size

\* C19: every id is face() * 2^61 + pos(): face() is the top 3 bits, pos()
\* the low 61 bits, nonzero for every valid id.
C19_FacePos ==
    call = "face_pos" =>
        /\ ret.face = TopBits(a)
        /\ ret.u64 = <<a[1], a[2], a[3], a[4] % 8192>>
        /\ ValidId(a) => ret.u64 # U64Zero

\* the exact value round(s * 2^31), halfway cases away from zero, as sign
\* and magnitude: floor(|s| * 2^31 + 1/2)
RoundScaled(s) ==
    LET e == s.e + MAX_CELL_LEVEL + 1
    IN  IF e >= 0 THEN [neg |-> s.neg, mag |-> BShl(s.m, e)]
        ELSE LET mag == BShr(BAdd(s.m, BShl(<<1>>, (0 - e) - 1)), 0 - e)
             IN  [neg |-> s.neg /\ mag # <<>>, mag |-> mag]

\* C14: get_face(p) is a face in [0,6) whose axis (face mod 3) is a
\* component of p of the largest absolute value; the face is below 3 exactly
\* when that component is non-negative.  (get_face is a function of p: the
\* same p gives the same face.)
C14_GetFace ==
    call = "get_face" =>
        LET p == ret.args[1]
            f == ret.face
            c == p[(f % 3) + 1]
        IN  /\ f \in 0..5
            /\ \A k \in 1..3 : F64Leq(F64Abs(p[k]), F64Abs(c))
            /\ (f < 3) <=> ~F64Less(c, F64Of(0, 0))
            /\ f = get_face(p)

\* a tie between all three components, the chosen one negative
C14_Witness ==
    /\ call = "get_face"
    /\ ret.args[1] = <<F64Of(-2, 0), F64Of(2, 0), F64Of(-2, 0)>>
    /\ ret.face = 5

\* C15: face_uv_to_xyz aborts for every face outside [0,6) and returns the
\* fixed embedding of the face otherwise
C15_FaceUvToXyz ==
    call = "face_uv_to_xyz" =>
        LET f == ret.args[1]
            u == ret.args[2]
            v == ret.args[3]
            one == F64Of(1, 0)
            m(x) == F64Sub(F64Of(0, 0), x)
            embedding == <<<<one, u, v>>, <<m(u), one, v>>, <<m(u), m(v), one>>,
                           <<m(one), m(v), m(u)>>, <<v, m(one), m(u)>>,
                           <<v, u, m(one)>>>>
        IN  IF f \in 0..5 THEN ~ret.abort /\ ret.out = embedding[f + 1]
            ELSE ret.abort

C15_Witness ==
    /\ call = "face_uv_to_xyz"
    /\ ret.args[1] = -1
    /\ ret.abort

\* C16: st_to_ij is monotonic non-decreasing, its value is in
\* [0, 2^30 - 1], 0 for s < 0 and 2^30 - 1 for s >= 1, and
\* st_to_ij(0.5) = 2^29
C16_StToIj ==
    call = "st_to_ij" =>
        LET s == ret.args[1]
            t == ret.args[2]
        IN  /\ ret.i \in 0..(Pow2(30) - 1)
            /\ F64Less(s, F64Of(0, 0)) => ret.i = 0
            /\ F64Leq(F64Of(1, 0), s) => ret.i = Pow2(30) - 1
            /\ s = F64Of(1, -1) => ret.i = Pow2(29)
            /\ F64Leq(s, t) => ret.i <= ret.j

C16_Witness ==
    /\ call = "st_to_ij"
    /\ ret.args[1] = F64Of(1, -1)
    /\ ret.i = Pow2(29)
    /\ F64Less(F64Of(1, 0), ret.args[2])
    /\ ret.j = Pow2(30) - 1

\* C17: st_to_uv(0.5) = 0.0, st_to_uv(1.0) = 1.0, st_to_uv(0.0) = -1.0, and
\* the two quadratic pieces have the same value at s = 0.5
C17_StToUvFixedPoints ==
    call = "st_to_uv" =>
        LET s == ret.args[1]
        IN  /\ s = F64Of(1, -1) =>
                  /\ ret.out = F64Of(0, 0)
                  /\ StToUvUpper(s) = StToUvLower(s)
            /\ s = F64Of(1, 0) => ret.out = F64Of(1, 0)
            /\ s = F64Of(0, 0) => ret.out = F64Of(-1, 0)

C17_Witness ==
    /\ call = "st_to_uv"
    /\ ret.args[1] = F64Of(1, 0)
    /\ ret.out = F64Of(1, 0)

\* C18: for every level in [0,30] get_size_ij_at_level(level) completes and
\* returns 2^(30 - level)
C18_SizeAtEveryLevel ==
    call = "get_size_ij_at_level" =>
        ~ret.abort /\ ret.i = Pow2(30 - ret.args[1])

\* C20: st_to_siti(s) aborts when round(s * 2^31) is negative or above the
\* unsigned 32-bit range, and returns round(s * 2^31) otherwise
C20_StToSiti ==
    call = "st_to_siti" =>
        LET r == RoundScaled(ret.args[1])
        IN  IF r.neg \/ Len(r.mag) > 32 THEN ret.abort
            ELSE ~ret.abort /\ ret.out = r.mag

\* s = 2 - 2^-32: the rounded value is 2^32, one above the range
C20_Witness ==
    /\ call = "st_to_siti"
    /\ ret.args[1] = F64Sub(F64Of(2, 0), F64Of(1, -32))
    /\ ret.abort

\* C21: siti_to_st(si) is defined for every si in [0, MAX_SITI], MAX_SITI =
\* 2^31 included, and is si / 2^31: siti_to_st(2^31) = 1.0, siti_to_st(0) = 0.0
C21_SitiToSt ==
    (call = "siti_to_st" /\ ~BLess(MAX_SITI, ret.args[1])) =>
        /\ ~ret.abort
        /\ ret.out = F64Canon(FALSE, ret.args[1], 0 - (MAX_CELL_LEVEL + 1))

\* the (i,j) chunk or position chunk, and the orientation, of a table entry
EntryChunk(e) == e \div 4
EntryOrientation(e) == e % 4

\* C22: the two tables are mutual inverses per starting orientation: if
\* lookup_pos[(ij << 2) + o] = (pos << 2) + o2 then
\* lookup_ij[(pos << 2) + o] = (ij << 2) + o2, and conversely
C22_TablesInverse ==
    once = "complete" =>
        \A o \in 0..3 : \A c \in 0..255 :
            LET ep == LOOKUP_TABLES.lookup_pos[c * 4 + o]
                ei == LOOKUP_TABLES.lookup_ij[c * 4 + o]
            IN  /\ LOOKUP_TABLES.lookup_ij[EntryChunk(ep) * 4 + o]
                       = c * 4 + EntryOrientation(ep)
                /\ LOOKUP_TABLES.lookup_pos[EntryChunk(ei) * 4 + o]
                       = c * 4 + EntryOrientation(ei)

\* the tables are built; position 1 in the canonical orientation is the
\* chunk (i,j) = (1,0) with the axes swapped, which leads back to position 1
C22_Witness ==
    /\ call = "init_lookup_tables"
    /\ once = "complete"
    /\ LOOKUP_TABLES.lookup_ij[1 * 4 + 0] = 16 * 4 + SWAP_MASK
    /\ LOOKUP_TABLES.lookup_pos[16 * 4 + 0] = 1 * 4 + SWAP_MASK

\* C23: after init_lookup_tables every index of both tables has been written
\* exactly once (1024 stores to each), and for each starting orientation the
\* 256 leaves reach 256 distinct (i,j) chunks and 256 distinct positions
C23_TablesPopulated ==
    once = "complete" =>
        /\ LOOKUP_TABLES.writes_pos = LOOKUP_TABLE_SIZE
        /\ LOOKUP_TABLES.writes_ij = LOOKUP_TABLE_SIZE
        /\ \A x \in 0..(LOOKUP_TABLE_SIZE - 1) :
              LOOKUP_TABLES.count_pos[x] = 1 /\ LOOKUP_TABLES.count_ij[x] = 1
        /\ \A o \in 0..3 :
              /\ {EntryChunk(LOOKUP_TABLES.lookup_pos[c * 4 + o]) : c \in 0..255}
                     = 0..255
              /\ {EntryChunk(LOOKUP_TABLES.lookup_ij[c * 4 + o]) : c \in 0..255}
                     = 0..255

C23_Witness ==
    /\ call = "init_lookup_tables"
    /\ init_runs = 1
    /\ LOOKUP_TABLES.writes_ij = LOOKUP_TABLE_SIZE
    /\ LOOKUP_TABLES.count_pos[LOOKUP_TABLE_SIZE - 1] = 1

\* C27: the curve stored in the tables is continuous: for each starting
\* orientation and every position p in [0,255) the chunks (i,j) of positions
\* p and p + 1 differ by exactly 1 in exactly one coordinate
C27_CurveContinuous ==
    once = "complete" =>
        \A o \in 0..3 : \A p \in 0..254 :
            LET c1 == EntryChunk(LOOKUP_TABLES.lookup_ij[p * 4 + o])
                c2 == EntryChunk(LOOKUP_TABLES.lookup_ij[(p + 1) * 4 + o])
                di == (c2 \div 16) - (c1 \div 16)
                dj == (c2 % 16) - (c1 % 16)
            IN  \/ di \in {-1, 1} /\ dj = 0
                \/ di = 0 /\ dj \in {-1, 1}

\* the last position of the canonical curve is the chunk (i,j) = (15,0), next
\* to the chunk (14,0) of the position before it
C27_Witness ==
    /\ call = "init_lookup_tables"
    /\ once = "complete"
    /\ EntryChunk(LOOKUP_TABLES.lookup_ij[255 * 4]) = 15 * 16
    /\ EntryChunk(LOOKUP_TABLES.lookup_ij[254 * 4]) = 14 * 16

\* C24: once the tables are constructed no step of any thread, in any
\* operation, changes an entry of them, and no step of an operation changes
\* the identifier it was called on.
C24_TablesFrozen ==
    [][/\ once = "complete" =>
             /\ LOOKUP_TABLES'.lookup_pos = LOOKUP_TABLES.lookup_pos
             /\ LOOKUP_TABLES'.lookup_ij = LOOKUP_TABLES.lookup_ij
       /\ \A t \in Threads :
             (thr[t].pc # "idle" /\ thr'[t].pc # "idle") =>
                 thr'[t].id = thr[t].id]_vars

\* with the tables built, one thread has finished a decoding while another
\* one is in the middle of its own
C24_Witness ==
    /\ once = "complete"
    /\ \E t1, t2 \in Threads :
          /\ t1 # t2
          /\ thr[t1].pc = "done"
          /\ thr[t1].out.i > 0
          /\ thr[t2].pc = "get_bits"
          /\ thr[t2].k < 7

\* C28: for every 64-bit id each of the 8 lookups uses an index in
\* [0,1024), the orientation carried between chunks is in [0,4), the top
\* chunk contributes an (i,j) chunk below 4 in each coordinate, and i and j
\* never exceed 2^30 - 1.
C28_LookupInRange ==
    \A t \in Threads :
        /\ thr[t].pc = "get_bits" =>
              /\ thr[t].acc.bits \in 0..3
              /\ get_bits_index(thr[t].k, thr[t].id, thr[t].acc.bits)
                     \in 0..(LOOKUP_TABLE_SIZE - 1)
        /\ thr[t].pc \in {"get_bits", "finish"} =>
              /\ thr[t].acc.i \in 0..(Pow2(MAX_LEVEL) - 1)
              /\ thr[t].acc.j \in 0..(Pow2(MAX_LEVEL) - 1)
        /\ (thr[t].pc = "get_bits" /\ thr[t].k = 6) =>
              /\ thr[t].acc.i % Pow2(7 * LOOKUP_BITS) = 0
              /\ thr[t].acc.j % Pow2(7 * LOOKUP_BITS) = 0

\* the identifier of all ones (face 7, not valid) has gone through the 8
\* lookups and reached the largest j
C28_Witness ==
    \E t \in Threads :
        /\ thr[t].id = U64Max
        /\ thr[t].pc = "finish"
        /\ thr[t].acc.j = Pow2(MAX_LEVEL) - 1

\* C25: for every valid id at level k the top k bits of the i and j that
\* to_face_ij_orientation returns are the bits of the level-by-level walk,
\* and the returned orientation is the walked orientation of the cell.
C25_DecodeIsWalk ==
    (call = "to_face_ij_orientation" /\ ValidId(a)) =>
        LET w == WalkFrom(a, 1, LevelOf(a), AndInt(TopBits(a), SWAP_MASK), 0, 0)
            rest == Pow2(MAX_LEVEL - LevelOf(a))
        IN  /\ ~ret.abort
            /\ ret.i \div rest = w.i
            /\ ret.j \div rest = w.j
            /\ ret.orientation = w.orientation

\* C26: for i, j in [0,2^30) and level in [0,30], ij_level_to_bound_uv uses
\* in each dimension lo = ij & -cell_size and hi = lo + cell_size with
\* cell_size = 2^(30-level): lo is a multiple of cell_size, lo <= ij < hi,
\* 0 <= lo < hi <= 2^30, and the interval of the bound is not empty.
C26_BoundCorners ==
    call = "ij_level_to_bound_uv" =>
        /\ ~ret.abort
        /\ \A d \in 1..2 :
              LET ij == ret.args[d]
                  cell_size == Pow2(MAX_LEVEL - ret.args[3])
                  lo == ret.out[d].ij_lo
                  hi == ret.out[d].ij_hi
              IN  /\ lo = ij - (ij % cell_size)
                  /\ hi = lo + cell_size
                  /\ lo <= ij /\ ij < hi
                  /\ 0 <= lo /\ lo < hi /\ hi <= Pow2(MAX_LEVEL)
                  /\ F64Leq(ret.out[d].lo, ret.out[d].hi)

\* C29: for every face f in [0,6) and every (u,v) with |u| < 1 and |v| < 1,
\* get_face(face_uv_to_xyz(f, u, v)) = f
C29_GetFaceInverts ==
    call = "get_face_of_xyz" =>
        LET f == ret.args[1]
            u == ret.args[2]
            v == ret.args[3]
        IN  (/\ f \in 0..(NUM_FACES - 1)
             /\ F64Less(F64Abs(u), F64Of(1, 0))
             /\ F64Less(F64Abs(v), F64Of(1, 0))) =>
                (~ret.abort /\ ret.face = f)

\* a point of face 4 next to two of its edges
C29_Witness ==
    /\ call = "get_face_of_xyz"
    /\ ret.args = <<4, F64Sub(F64Of(1, 0), F64Of(1, -53)),
                       F64Sub(F64Of(1, -53), F64Of(1, 0))>>
    /\ ret.face = 4

\* C30: for every nonzero vector, whichever of x, y and z has the largest
\* absolute value, ortho completes: the axis index k it derives is one of 0, 1
\* and 2, and the result is the normalized cross product of the vector with
\* the unit vector of axis k, which is orthogonal to the vector
C30_OrthoCompletes ==
    (call = "ortho" /\ ret.args[1] # zero) =>
        /\ ~ret.abort
        /\ ret.i \in 0..2
        /\ LET p == ret.args[1]
               axis == [n \in 1..3 |-> IF n = ret.i + 1 THEN F64Of(1, 0)
                                                        ELSE F64Of(0, 0)]
               c == cross_prod(p, axis)
           IN  /\ ret.out = normalize(c)
               /\ dot_prod(p, c) = F64Of(0, 0)
               /\ dot_prod(p, ret.out) = F64Of(0, 0)

====
